---- MODULE Spec2Model ----
(***************************************************************************)
(* Model of DistributedLockService                                         *)
(* (src/src/workers/services/distributed-lock.service.ts): a lease-based   *)
(* mutual-exclusion lock kept in a Redis-like key-value store.             *)
(*                                                                         *)
(* A store round trip takes effect in one atomic step at the store (SET NX  *)
(* PX, and each Lua script, run atomically there).  The code that runs in  *)
(* a method before a round trip reads no shared state, so a method's step  *)
(* is taken at the instant the store serves its command; a caller is       *)
(* between steps only while it sleeps between two attempts (acq_sleep) or  *)
(* while the unit of work of withLock runs (work).  A round trip is either *)
(* served and answered or fails with a store error (up = FALSE); a command *)
(* that failed was applied by the store or was not.  Time is a discrete    *)
(* clock; one Tick is one unit of lease and of retry delay.                *)
(*                                                                         *)
(* The second part models AuthService (src/unnamed/part_007: sign-in,      *)
(* refresh, logout, access-token verification, e-mail verification) and    *)
(* AuthGuard (src/src/common/guards/auth.guard.ts).  It has its own state  *)
(* and its own specifications; the lock part and the auth part do not      *)
(* touch each other's variables.                                           *)
(***************************************************************************)
EXTENDS Integers, FiniteSets, TLC

(* ------------------------------ bounds -------------------------------- *)
MaxTime == 2
MaxCalls == 2

(* the configured defaults (constructor, lines 25-36), in clock units *)
defaultTtl == 2
defaultRetryCount == 1
defaultRetryDelay == 1

Callers == {"P", "Q"}
Keys == {"A"}

Undefined == -1
FnResults == {"null", "value"}

(* ------------------------------ tokens -------------------------------- *)
NullTok == [kind |-> "null", pid |-> 0, time |-> 0, rnd |-> 0]
WrongToken == [kind |-> "wrong", pid |-> 0, time |-> 0, rnd |-> 0]

pid(c) == IF c = "P" THEN 1 ELSE 2

\* `${process.pid}-${Date.now()}-${Math.random()}`; Math.random() is a fresh draw
NewToken(c, t, r) == [kind |-> "pid", pid |-> pid(c), time |-> t, rnd |-> r]

\* `local-${Date.now()}`
LocalToken(t) == [kind |-> "local", pid |-> 0, time |-> t, rnd |-> 0]

(* ------------------------------- state -------------------------------- *)
\* enabled, redis : this.enabled, this.redis # null (fixed by the constructor)
\* now            : Date.now()
\* seq            : calls made so far; also the value Math.random() draws
\* store          : lock key -> token and remaining ttl in the store
\* call           : caller -> its position in acquire / withLock and the locals
\* last           : what the step just taken returned (NoRet: nothing), and what
\*                  the call that returned had done: store commands sent,
\*                  SETs, sleeps, time slept, release() calls
\* mine           : caller -> the token acquire() last returned to it
\* counter        : the shared counter the unit of work increments
\* released       : caller -> a release() with the token in mine has returned
\*                  true in store mode (history of the calls, not program state)
VARIABLES enabled, redis, now, seq, store, call, last, mine, counter, released

lockVars == <<enabled, redis, now, seq, store, call, last, mine, counter, released>>

(* ---------------------------- auth: state ------------------------------ *)
\* clock         : Date.now() as the auth service reads it
\* sessions      : the ids of the session rows in the database
\* accessTokens  : the access tokens signed so far (payload: sessionId, exp, role)
\* refreshTokens : the refresh tokens signed so far (payload: sessionId, exp)
\* blacklist     : session id -> remaining ttl of its SESSION_BLACKLIST cache
\*                 entry (0: no entry)
\* loggedOut     : the session ids for which a logout has completed (history)
\* logoutPc      : the access-token payload of the logout that is between its
\*                 two awaits (NoToken: none)
\* mail          : the registered user: registered, exp of the verification
\*                 token, remaining ttl of its EMAIL_VERIFICATION cache entry
\*                 (0: no entry), the number of verifyUser() calls made, and
\*                 whether a verifyEmail call that looked into the cache has
\*                 completed (history)
\* vcall         : client -> its position in verifyEmail and the locals
\* reply         : what the auth step just taken returned or threw
VARIABLES clock, sessions, accessTokens, refreshTokens, blacklist, loggedOut,
          logoutPc, mail, vcall, reply

authVars == <<clock, sessions, accessTokens, refreshTokens, blacklist, loggedOut,
              logoutPc, mail, vcall, reply>>

vars == <<lockVars, authVars>>

\* session ids (uuids), in the order createSession hands them out
Sids == {1, 2}
Roles == {"user", "admin"}
Verifiers == {"V1", "V2"}

(* the configured lifetimes (auth.expires, auth.refreshExpires,
   auth.confirmEmailExpires), in clock units *)
AccessExpires == 2
RefreshExpires == 3
ConfirmEmailExpires == 2

NoToken == [sid |-> 0, exp |-> 0, role |-> "none"]
\* a token that jwtService.verify rejects: not signed with the secret
ForgedToken == [sid |-> 0, exp |-> 0, role |-> "forged"]

IdleVerify == [pc |-> "idle", hit |-> FALSE, late |-> FALSE]

NoMail == [registered |-> FALSE, exp |-> 0, ttl |-> 0, verifications |-> 0,
           completed |-> FALSE]

\* the route metadata the guard reads: @Public, auth-optional, @Roles(...)
\* (declared = FALSE: the route carries no @Roles, the metadata is undefined)
NoRoute == [pub |-> FALSE, opt |-> FALSE, declared |-> FALSE, roles |-> {}]

NoHeader == [type |-> "none", tok |-> NoToken]

NoReply ==
    [op |-> "none", who |-> "none", tok |-> NoToken, res |-> "none",
     route |-> NoRoute, hdr |-> "none", late |-> FALSE, hit |-> FALSE]

\* no auth request has been made
AuthIdle ==
    /\ clock = 0
    /\ sessions = {}
    /\ accessTokens = {}
    /\ refreshTokens = {}
    /\ blacklist = [i \in Sids |-> 0]
    /\ loggedOut = {}
    /\ logoutPc = NoToken
    /\ mail = NoMail
    /\ vcall = [v \in Verifiers |-> IdleVerify]
    /\ reply = NoReply

Absent == [token |-> NullTok, ttl |-> 0]

\* a caller's position in acquire / withLock and the locals of that call
IdleFrame ==
    [pc |-> "idle", wl |-> FALSE, key |-> "A", token |-> NullTok,
     ttl |-> 0, retryCount |-> 0, retryDelay |-> 0,
     attempt |-> 0, timer |-> 0, lease |-> 0,
     sets |-> 0, sleeps |-> 0, waited |-> 0]

\* what the step just taken returned to its caller (op = "none": nothing)
NoRet ==
    [op |-> "none", who |-> "P", key |-> "A", token |-> NullTok, ok |-> FALSE,
     ms |-> 0, val |-> "none", thrown |-> FALSE, ran |-> FALSE, err |-> FALSE,
     exc |-> "none", fn |-> "none", rel |-> 0, cmds |-> 0,
     sets |-> 0, sleeps |-> 0, waited |-> 0, rc |-> 0, rd |-> 0]

\* JavaScript a || b on a number-or-undefined a
Or(a, b) == IF a = Undefined \/ a = 0 THEN b ELSE a

\* mutant: the methods go to the store whatever the configuration
UsesStore_Always == TRUE

\* mutant: the methods look at this.enabled only
UsesStore_EnabledOnly == enabled

\* this.enabled && this.redis
UsesStore == enabled /\ redis

Init ==
    /\ enabled \in BOOLEAN
    /\ redis \in BOOLEAN
    /\ (redis => enabled)
    /\ now = 0
    /\ seq = 0
    /\ store = [k \in Keys |-> Absent]
    /\ call = [c \in Callers |-> IdleFrame]
    /\ last = NoRet
    /\ mine = [c \in Callers |-> NullTok]
    /\ counter = 0
    /\ released = [c \in Callers |-> FALSE]
    /\ AuthIdle

\* the lock service is constructed with locking disabled and never called
LockIdle ==
    /\ enabled = FALSE /\ redis = FALSE
    /\ now = 0 /\ seq = 0
    /\ store = [k \in Keys |-> Absent]
    /\ call = [c \in Callers |-> IdleFrame]
    /\ last = NoRet
    /\ mine = [c \in Callers |-> NullTok]
    /\ counter = 0
    /\ released = [c \in Callers |-> FALSE]

(* ------------------------- the store (Redis) --------------------------- *)
\* mutant: SET without NX (the write does not look at the key)
SetIfAbsentOk_NoNX(st, k) == TRUE

\* NX of SET key token PX ttl NX: the write happens only if the key is not there
SetIfAbsentOk(st, k) == st[k] = Absent

\* redis.set(lockKey, token, 'PX', ttl, 'NX')
SetNxPx(st, k, t, ttl) ==
    IF SetIfAbsentOk(st, k) THEN [st EXCEPT ![k] = [token |-> t, ttl |-> ttl]] ELSE st

\* mutant: the script checks that the key is there, not whose it is
TokenMatches_AnyToken(st, k, t) == st[k] # Absent

\* redis.call("get", KEYS[1]) == ARGV[1]  (of both Lua scripts)
TokenMatches(st, k, t) == st[k] # Absent /\ st[k].token = t

\* mutant: a plain DEL
DelIfEqual_Unchecked(st, k, t) == [st EXCEPT ![k] = Absent]

\* release script: if get == token then del
DelIfEqual(st, k, t) ==
    IF TokenMatches(st, k, t) THEN [st EXCEPT ![k] = Absent] ELSE st

\* mutant: the new ttl is added to what is left
Pexpire_Adds(e, ms) == IF ms <= 0 THEN Absent ELSE [e EXCEPT !.ttl = e.ttl + ms]

\* PEXPIRE key ms: the remaining time becomes ms; a timeout <= 0 deletes the key
Pexpire(e, ms) == IF ms <= 0 THEN Absent ELSE [e EXCEPT !.ttl = ms]

\* mutant: a plain PEXPIRE
PexpireIfEqual_Unchecked(st, k, t, ms) ==
    IF st[k] # Absent THEN [st EXCEPT ![k] = Pexpire(st[k], ms)] ELSE st

\* mutant: the script sets the key again when it is gone
PexpireIfEqual_Recreates(st, k, t, ms) ==
    IF TokenMatches(st, k, t) THEN [st EXCEPT ![k] = Pexpire(st[k], ms)]
    ELSE IF st[k] = Absent /\ ms > 0 THEN [st EXCEPT ![k] = [token |-> t, ttl |-> ms]]
    ELSE st

\* extend script: if get == token then pexpire
PexpireIfEqual(st, k, t, ms) ==
    IF TokenMatches(st, k, t) THEN [st EXCEPT ![k] = Pexpire(st[k], ms)] ELSE st

\* mutant: EXISTS answers 1 only for a key with more than one unit of lease
KeyExists_Fresh(st, k) == st[k] # Absent /\ st[k].ttl > 1

\* redis.exists(lockKey) === 1
KeyExists(st, k) == st[k] # Absent

\* mutant: the key was written without PX and never expires
Expire_Never(st) == st

\* passive expiry: one unit of time passes for every key
Expire(st) ==
    [k \in Keys |-> IF st[k] # Absent /\ st[k].ttl > 1
                    THEN [st[k] EXCEPT !.ttl = st[k].ttl - 1]
                    ELSE Absent]

(* ------------------------ store errors (catch) ------------------------- *)
\* mutant: a command that failed was never applied
StoreAfter_Clean(up, st, applied) == IF up THEN {applied} ELSE {st}

\* the store after a command: answered, it was applied; failed (the await
\* rejects and the catch block runs), it was applied or it was not
StoreAfter(up, st, applied) == IF up THEN {applied} ELSE {st, applied}

\* mutant: the SET is not in a try block
AcquireThrows_NoCatch(up) == ~up

\* catch (error) { ...; return null } of acquire (lines 119-122): does a store
\* error leave acquire as an exception?
AcquireThrows(up) == FALSE

\* mutant: the eval is not in a try block
ReleaseThrows_NoCatch(up) == ~up

\* catch (error) { ...; return false } of release (lines 164-167)
ReleaseThrows(up) == FALSE

\* catch (error) { ...; return false } of extend (lines 204-207)
ExtendThrows(up) == FALSE

\* exists has no try block: a store error is thrown on (lines 246-247)
ExistsThrows(up) == ~up

\* what a method that threw on a store error throws
Exc(thrown) == IF thrown THEN "StoreError" ELSE "none"

(* --------------------------- call bookkeeping -------------------------- *)
\* the per-call LockOptions a caller may pass (Undefined: the field is left out)
TtlOpts == {Undefined, 0, 1}
RetryOpts == {Undefined, 0, 1}
DelayOpts == {Undefined, 1}
Options == [ttl : TtlOpts, retryCount : RetryOpts, retryDelay : DelayOpts]

\* the ttl arguments a caller may pass to extend
ExtendTtls == {0, 1, 2}

\* mutant: the ttl option is used as it comes
EffTtl_Raw(o) == o.ttl

\* const ttl = options?.ttl || this.defaultTtl            (line 97)
EffTtl(o) == Or(o.ttl, defaultTtl)
\* const retryCount = options?.retryCount || this.defaultRetryCount   (line 98)
EffRetryCount(o) == Or(o.retryCount, defaultRetryCount)
\* const retryDelay = options?.retryDelay || this.defaultRetryDelay   (line 99)
EffRetryDelay(o) == Or(o.retryDelay, defaultRetryDelay)

\* mutant: the token is not checked
WithLockRuns_Always(t) == TRUE

\* if (!token) { ...skipping execution; return null }     (line 223)
WithLockRuns(t) == t # NullTok

\* mutant: the sleep does not look at the attempts left
RetryLeft_Always(f) == TRUE

\* attempt < retryCount: another attempt follows the failed one   (line 116)
RetryLeft(f) == f.attempt < f.retryCount

Return(c, r) ==
    /\ call' = [call EXCEPT ![c] = IdleFrame]
    /\ last' = [r EXCEPT !.who = c]

Continue(c, f) ==
    /\ call' = [call EXCEPT ![c] = f]
    /\ last' = NoRet

\* the history of release(): a new token from acquire starts afresh, and
\* `return true` of release (line 157) with the caller's token is noted
NoteReleased ==
    released' =
        [c \in Callers |->
            IF mine'[c] # mine[c] THEN FALSE
            ELSE IF /\ UsesStore
                    /\ last'.op = "release" /\ last'.who = c /\ last'.ok
                    /\ last'.token = mine[c]
                 THEN TRUE
                 ELSE released[c]]

\* what the call with locals f has done when it returns
Done(f) ==
    [NoRet EXCEPT !.key = f.key, !.cmds = f.sets, !.sets = f.sets,
                  !.sleeps = f.sleeps, !.waited = f.waited,
                  !.rc = f.retryCount, !.rd = f.retryDelay]

\* what acquire() hands back, and what withLock does with it (lines 221-229)
AcquireReturns(c, f, t, err) ==
    LET thrown == err /\ AcquireThrows(~err)
        r == [Done(f) EXCEPT !.err = err, !.thrown = thrown, !.exc = Exc(thrown)]
    IN
    IF f.wl
    THEN IF ~thrown /\ WithLockRuns(t)
         THEN /\ Continue(c, [f EXCEPT !.pc = "work", !.token = t])
              /\ counter' = counter + 1
              /\ UNCHANGED mine
         ELSE /\ Return(c, [r EXCEPT !.op = "withLock",
                                     !.val = IF thrown THEN "none" ELSE "null"])
              /\ UNCHANGED <<mine, counter>>
    ELSE /\ Return(c, [r EXCEPT !.op = "acquire",
                                !.token = IF thrown THEN NullTok ELSE t,
                                !.ok = ~thrown /\ t # NullTok])
         /\ mine' = IF ~thrown /\ t # NullTok THEN [mine EXCEPT ![c] = t] ELSE mine
         /\ UNCHANGED counter

(* ------------------------------ acquire -------------------------------- *)
\* one pass of the loop body (lines 103-123) of the call with locals f
LoopPass(c, f0, up) ==
    LET f == [f0 EXCEPT !.sets = f0.sets + 1] IN
    /\ store' \in StoreAfter(up, store, SetNxPx(store, f.key, f.token, f.ttl))
    /\ IF ~up
       THEN AcquireReturns(c, f, NullTok, TRUE)
       ELSE IF SetIfAbsentOk(store, f.key)
            THEN AcquireReturns(c, [f EXCEPT !.lease = f.ttl], f.token, FALSE)
            ELSE IF RetryLeft(f)
                 THEN /\ Continue(c, [f EXCEPT !.pc = "acq_sleep",
                                               !.timer = f.retryDelay,
                                               !.sleeps = f.sleeps + 1,
                                               !.waited = f.waited + f.retryDelay])
                      /\ UNCHANGED <<mine, counter>>
                 ELSE AcquireReturns(c, f, NullTok, FALSE)

\* acquire(key, options) up to the answer to its first SET (lines 91-118)
StartAcquire(c, k, o, wl, up) ==
    /\ call[c].pc = "idle"
    /\ seq < MaxCalls
    /\ seq' = seq + 1
    /\ UNCHANGED <<enabled, redis, now>>
    /\ IF ~UsesStore
       THEN /\ AcquireReturns(c, [IdleFrame EXCEPT !.wl = wl, !.key = k],
                              LocalToken(now), FALSE)
            /\ UNCHANGED store
       ELSE LoopPass(c, [IdleFrame EXCEPT !.wl = wl, !.key = k,
                                          !.ttl = EffTtl(o),
                                          !.retryCount = EffRetryCount(o),
                                          !.retryDelay = EffRetryDelay(o),
                                          !.token = NewToken(c, now, seq)], up)
    /\ NoteReleased
    /\ UNCHANGED authVars

AcquireCall(c, k, o, up) == StartAcquire(c, k, o, FALSE, up)

\* withLock(key, fn, options): const token = await this.acquire(key, options)
WithLockCall(c, k, o, up) == StartAcquire(c, k, o, TRUE, up)

\* sleep(retryDelay) is over: attempt++ and the next pass (lines 103, 117)
AcquireRetry(c, up) ==
    LET f == call[c] IN
    /\ f.pc = "acq_sleep"
    /\ f.timer = 0
    /\ UNCHANGED <<enabled, redis, now, seq>>
    /\ LoopPass(c, [f EXCEPT !.attempt = f.attempt + 1], up)
    /\ NoteReleased
    /\ UNCHANGED authVars

(* ------------------------------- release ------------------------------- *)
\* release(key, token) in store mode: result === 1, or catch -> false (lines 143-167)
ReleaseOk(st, k, t, up) == up /\ TokenMatches(st, k, t)

ReleaseStore(st, k, t, up) == StoreAfter(up, st, DelIfEqual(st, k, t))

\* the tokens a caller can pass: the one acquire last gave it, or a made-up one
KnownTokens(c) == {WrongToken} \cup ({mine[c]} \ {NullTok})

ReleaseCall(c, k, t, up) ==
    LET thrown == UsesStore /\ ReleaseThrows(up) IN
    /\ call[c].pc = "idle"
    /\ seq < MaxCalls
    /\ seq' = seq + 1
    /\ UNCHANGED <<enabled, redis, now, mine, counter>>
    /\ store' \in IF UsesStore THEN ReleaseStore(store, k, t, up) ELSE {store}
    /\ Return(c, [NoRet EXCEPT !.op = "release", !.key = k, !.token = t,
                               !.ok = IF UsesStore THEN ReleaseOk(store, k, t, up)
                                       ELSE TRUE,
                               !.err = UsesStore /\ ~up,
                               !.thrown = thrown, !.exc = Exc(thrown),
                               !.cmds = IF UsesStore THEN 1 ELSE 0])
    /\ NoteReleased
    /\ UNCHANGED authVars

(* ------------------------------ withLock ------------------------------- *)
\* mutant: release follows fn() inside the try, with no finally
FinallyReleases_OnlyOnReturn(out) == out # "throw"

\* finally { await this.release(key, token) }: on a return and on a throw
FinallyReleases(out) == TRUE

\* fn() settles, the finally block awaits release(key, token), and withLock
\* returns fn's result or rethrows its error (lines 228-233)
FnSettles(c, out, up) ==
    LET f == call[c]
        rel == FinallyReleases(out)
        sent == rel /\ UsesStore
        relThrown == sent /\ ReleaseThrows(up)
    IN
    /\ f.pc = "work"
    /\ UNCHANGED <<enabled, redis, now, seq, mine, counter>>
    /\ store' \in IF sent THEN ReleaseStore(store, f.key, f.token, up) ELSE {store}
    /\ Return(c, [Done(f) EXCEPT
                     !.op = "withLock", !.ran = TRUE, !.fn = out,
                     \* an exception thrown in finally replaces the pending one
                     !.thrown = (out = "throw") \/ relThrown,
                     !.exc = IF relThrown THEN "StoreError"
                             ELSE IF out = "throw" THEN "E" ELSE "none",
                     !.val = IF out = "throw" \/ relThrown THEN "none" ELSE out,
                     !.rel = IF rel THEN 1 ELSE 0,
                     !.cmds = f.sets + (IF sent THEN 1 ELSE 0),
                     !.ok = rel /\ (IF UsesStore
                                    THEN ReleaseOk(store, f.key, f.token, up)
                                    ELSE TRUE),
                     !.err = sent /\ ~up])
    /\ NoteReleased
    /\ UNCHANGED authVars

FnReturn(c, r, up) == FnSettles(c, r, up)

FnThrow(c, up) == FnSettles(c, "throw", up)

(* ------------------------------- extend -------------------------------- *)
\* extend(key, token, ttl) in store mode: result === 1, or catch -> false (lines 183-207)
ExtendOk(st, k, t, up) == up /\ TokenMatches(st, k, t)

ExtendCall(c, k, t, ms, up) ==
    LET thrown == UsesStore /\ ExtendThrows(up) IN
    /\ call[c].pc = "idle"
    /\ seq < MaxCalls
    /\ seq' = seq + 1
    /\ UNCHANGED <<enabled, redis, now, mine, counter>>
    /\ store' \in IF UsesStore
                   THEN StoreAfter(up, store, PexpireIfEqual(store, k, t, ms))
                   ELSE {store}
    /\ Return(c, [NoRet EXCEPT !.op = "extend", !.key = k, !.token = t, !.ms = ms,
                               !.ok = IF UsesStore THEN ExtendOk(store, k, t, up)
                                       ELSE TRUE,
                               !.err = UsesStore /\ ~up,
                               !.thrown = thrown, !.exc = Exc(thrown),
                               !.cmds = IF UsesStore THEN 1 ELSE 0])
    /\ NoteReleased
    /\ UNCHANGED authVars

(* ------------------------------- exists -------------------------------- *)
\* exists(key): result === 1; there is no try/catch, a store error is thrown on
ExistsCall(c, k, up) ==
    LET thrown == UsesStore /\ ExistsThrows(up) IN
    /\ call[c].pc = "idle"
    /\ seq < MaxCalls
    /\ seq' = seq + 1
    /\ UNCHANGED <<enabled, redis, now, store, mine, counter>>
    /\ Return(c, [NoRet EXCEPT !.op = "exists", !.key = k,
                               !.ok = UsesStore /\ up /\ KeyExists(store, k),
                               !.thrown = thrown, !.exc = Exc(thrown),
                               !.err = UsesStore /\ ~up,
                               !.cmds = IF UsesStore THEN 1 ELSE 0])
    /\ NoteReleased
    /\ UNCHANGED authVars

(* -------------------------------- time --------------------------------- *)
Dec(n) == IF n > 0 THEN n - 1 ELSE 0

Tick ==
    /\ now < MaxTime
    /\ now' = now + 1
    /\ store' = Expire(store)
    /\ call' = [c \in Callers |->
                  [call[c] EXCEPT !.timer = Dec(call[c].timer),
                                  !.lease = Dec(call[c].lease)]]
    /\ last' = NoRet
    /\ UNCHANGED <<enabled, redis, seq, mine, counter>>
    /\ NoteReleased
    /\ UNCHANGED authVars

(* ------------------------------- system -------------------------------- *)
Next ==
    \/ \E c \in Callers, k \in Keys, o \in Options, up \in BOOLEAN : AcquireCall(c, k, o, up)
    \/ \E c \in Callers, k \in Keys, o \in Options, up \in BOOLEAN : WithLockCall(c, k, o, up)
    \/ \E c \in Callers, up \in BOOLEAN : AcquireRetry(c, up)
    \/ \E c \in Callers, r \in FnResults, up \in BOOLEAN : FnReturn(c, r, up)
    \/ \E c \in Callers, up \in BOOLEAN : FnThrow(c, up)
    \/ \E c \in Callers, k \in Keys, up \in BOOLEAN :
          \E t \in KnownTokens(c) : ReleaseCall(c, k, t, up)
    \/ \E c \in Callers, k \in Keys, ms \in ExtendTtls, up \in BOOLEAN :
          \E t \in KnownTokens(c) : ExtendCall(c, k, t, ms, up)
    \/ \E c \in Callers, k \in Keys, up \in BOOLEAN : ExistsCall(c, k, up)
    \/ Tick

Spec == Init /\ [][Next]_vars

\* time passes
LiveSpec == Spec /\ WF_vars(Tick)

\* every caller runs its work through withLock and passes retryCount: 0
NextRetry0 ==
    \/ \E c \in Callers, k \in Keys, o \in Options, up \in BOOLEAN :
          o.retryCount = 0 /\ WithLockCall(c, k, o, up)
    \/ \E c \in Callers, up \in BOOLEAN : AcquireRetry(c, up)
    \/ \E c \in Callers, r \in FnResults, up \in BOOLEAN : FnReturn(c, r, up)
    \/ \E c \in Callers, up \in BOOLEAN : FnThrow(c, up)
    \/ Tick

SpecRetry0 == Init /\ [][NextRetry0]_vars

\* every caller calls acquire directly and passes retryCount: 0
NextAcquire0 ==
    \/ \E c \in Callers, k \in Keys, o \in Options, up \in BOOLEAN :
          o.retryCount = 0 /\ AcquireCall(c, k, o, up)
    \/ \E c \in Callers, up \in BOOLEAN : AcquireRetry(c, up)
    \/ \E c \in Callers, k \in Keys, up \in BOOLEAN :
          \E t \in KnownTokens(c) : ReleaseCall(c, k, t, up)
    \/ Tick

SpecAcquire0 == Init /\ [][NextAcquire0]_vars

\* time passes, and a caller whose sleep is over runs on: the timer callback
\* resolves the promise and the store answers or fails every command
LiveAcquireSpec ==
    /\ Spec
    /\ WF_vars(Tick)
    /\ \A c \in Callers : WF_vars(\E up \in BOOLEAN : AcquireRetry(c, up))

(* a contended key: another worker process took the key before the calls
   that are followed, with the default lease or with one unit of it left *)
OtherToken == [kind |-> "pid", pid |-> 3, time |-> 0, rnd |-> -1]

InitContended ==
    /\ enabled = TRUE /\ redis = TRUE
    /\ now = 0 /\ seq = 0
    /\ \E n \in 1..defaultTtl :
         store = [k \in Keys |-> [token |-> OtherToken, ttl |-> n]]
    /\ call = [c \in Callers |-> IdleFrame]
    /\ last = NoRet
    /\ mine = [c \in Callers |-> NullTok]
    /\ counter = 0
    /\ released = [c \in Callers |-> FALSE]
    /\ AuthIdle

SpecContended == InitContended /\ [][Next]_vars

(* a held key: P's acquire("A") with no options has returned HeldToken, and
   Q is idle or has begun acquire("A") with no options, was refused once and
   sleeps before its second attempt *)
HeldToken == NewToken("P", 0, -1)

WaitingFrame ==
    [IdleFrame EXCEPT !.pc = "acq_sleep", !.key = "A",
                      !.token = NewToken("Q", 0, -2),
                      !.ttl = defaultTtl,
                      !.retryCount = defaultRetryCount,
                      !.retryDelay = defaultRetryDelay,
                      !.timer = defaultRetryDelay,
                      !.sets = 1, !.sleeps = 1, !.waited = defaultRetryDelay]

InitHeld ==
    /\ enabled = TRUE /\ redis = TRUE
    /\ now = 0 /\ seq = 0
    /\ store = [k \in Keys |-> [token |-> HeldToken, ttl |-> defaultTtl]]
    /\ \E f \in {IdleFrame, WaitingFrame} : call = [c \in Callers |-> IF c = "Q" THEN f ELSE IdleFrame]
    /\ last = NoRet
    /\ mine = [c \in Callers |-> IF c = "P" THEN HeldToken ELSE NullTok]
    /\ counter = 0
    /\ released = [c \in Callers |-> FALSE]
    /\ AuthIdle

SpecHeld == InitHeld /\ [][Next]_vars

(* ======================= AuthService, AuthGuard ======================== *)
\* jwtService.verify: signed with the secret and not expired
JwtValid(tok, signed, t) == tok \in signed /\ t < tok.exp

\* verifyAccessToken (lines 243-262): "ok" (the payload is returned) or the
\* exception thrown
VerifyAccessToken(tok) ==
    IF ~JwtValid(tok, accessTokens, clock) THEN "Unauthorized"
    ELSE IF blacklist[tok.sid] > 0 THEN "Unauthorized"
    ELSE "ok"

AccessToken(i, r) == [sid |-> i, exp |-> clock + AccessExpires, role |-> r]
RefreshTokenOf(i) == [sid |-> i, exp |-> clock + RefreshExpires, role |-> "refresh"]

\* createToken (lines 292-337): signs an access and a refresh token
CreateToken(i, r) ==
    /\ accessTokens' = accessTokens \cup {AccessToken(i, r)}
    /\ refreshTokens' = refreshTokens \cup {RefreshTokenOf(i)}

\* the one user of the session scenarios; its tokens carry its role
UserRole == "user"

\* the session ids handed out so far (every createSession is followed by createToken)
UsedSids == {t.sid : t \in refreshTokens}

\* signIn with the right password: createSession, createToken (lines 68-101)
SignIn ==
    /\ \E i \in Sids :
         /\ i = Cardinality(UsedSids) + 1
         /\ sessions' = sessions \cup {i}
         /\ CreateToken(i, UserRole)
         /\ reply' = [NoReply EXCEPT !.op = "signIn", !.res = "ok",
                                     !.tok = AccessToken(i, UserRole)]
    /\ UNCHANGED <<clock, blacklist, loggedOut, logoutPc, mail, vcall>>
    /\ UNCHANGED lockVars

\* refreshToken (lines 213-241): the session must exist; the hash is not compared
RefreshToken(rt) ==
    LET good == JwtValid(rt, refreshTokens, clock) /\ rt.sid \in sessions IN
    /\ IF good
       THEN CreateToken(rt.sid, UserRole)
       ELSE UNCHANGED <<accessTokens, refreshTokens>>
    /\ reply' = [NoReply EXCEPT !.op = "refreshToken", !.tok = rt,
                                !.res = IF good THEN "ok" ELSE "Unauthorized"]
    /\ UNCHANGED <<clock, sessions, blacklist, loggedOut, logoutPc, mail, vcall>>
    /\ UNCHANGED lockVars

\* GET /auth/logout with access token tok: the guard verifies it, then logout
\* awaits cacheManager.set(blacklist key, true, exp * 1000 - Date.now())
\* (lines 205-209)
LogoutStart(tok) ==
    /\ logoutPc = NoToken
    /\ VerifyAccessToken(tok) = "ok"
    /\ blacklist' = [blacklist EXCEPT ![tok.sid] = tok.exp - clock]
    /\ logoutPc' = tok
    /\ reply' = NoReply
    /\ UNCHANGED <<clock, sessions, accessTokens, refreshTokens, loggedOut, mail, vcall>>
    /\ UNCHANGED lockVars

\* logout awaits deleteSession(sessionId) and returns (line 210)
LogoutFinish ==
    /\ logoutPc # NoToken
    /\ sessions' = sessions \ {logoutPc.sid}
    /\ loggedOut' = loggedOut \cup {logoutPc.sid}
    /\ logoutPc' = NoToken
    /\ reply' = [NoReply EXCEPT !.op = "logout", !.tok = logoutPc, !.res = "ok"]
    /\ UNCHANGED <<clock, accessTokens, refreshTokens, blacklist, mail, vcall>>
    /\ UNCHANGED lockVars

\* a call of verifyAccessToken(tok)
VerifyCall(tok) ==
    /\ reply' = [NoReply EXCEPT !.op = "verifyAccessToken", !.tok = tok,
                                !.res = VerifyAccessToken(tok)]
    /\ UNCHANGED <<clock, sessions, accessTokens, refreshTokens, blacklist,
                   loggedOut, logoutPc, mail, vcall>>
    /\ UNCHANGED lockVars

\* time passes: the cache drops the entries whose ttl has run out
AuthTick ==
    /\ clock < MaxTime
    /\ clock' = clock + 1
    /\ blacklist' = [i \in Sids |-> Dec(blacklist[i])]
    /\ mail' = [mail EXCEPT !.ttl = Dec(mail.ttl)]
    /\ reply' = NoReply
    /\ UNCHANGED <<sessions, accessTokens, refreshTokens, loggedOut, logoutPc, vcall>>
    /\ UNCHANGED lockVars

SessionInit == LockIdle /\ AuthIdle

SessionNext ==
    \/ SignIn
    \/ \E rt \in refreshTokens \cup {ForgedToken} : RefreshToken(rt)
    \/ \E tok \in accessTokens : LogoutStart(tok)
    \/ LogoutFinish
    \/ \E tok \in accessTokens \cup {ForgedToken} : VerifyCall(tok)
    \/ AuthTick

SessionSpec == SessionInit /\ [][SessionNext]_vars

(* ------------------------------ AuthGuard ------------------------------ *)
\* the route metadata: no @Roles, @Roles(), or @Roles(r, ...)
Routes ==
    {r \in [pub : BOOLEAN, opt : BOOLEAN, declared : BOOLEAN, roles : SUBSET Roles] :
        ~r.declared => r.roles = {}}

\* extractTokenFromHeader (lines 67-70): undefined unless the type is Bearer
ExtractToken(h) == IF h.type = "Bearer" THEN h.tok ELSE NoToken

\* canActivate (lines 24-65): "true", "false", or the exception thrown
CanActivateResult(route, h) ==
    LET accessToken == ExtractToken(h) IN
    IF route.pub THEN "true"
    ELSE IF route.opt /\ accessToken = NoToken THEN "true"
    ELSE IF accessToken = NoToken THEN "Unauthorized"
    ELSE IF VerifyAccessToken(accessToken) # "ok" THEN "Unauthorized"
    \* authRoles is undefined when the route has no @Roles: authRoles.length throws
    ELSE IF ~route.declared THEN "TypeError"
    ELSE IF route.roles # {}
         THEN IF accessToken.role \in route.roles THEN "true" ELSE "false"
    ELSE "true"

CanActivate(route, h) ==
    /\ reply' = [NoReply EXCEPT !.op = "canActivate", !.route = route,
                                !.hdr = h.type, !.tok = ExtractToken(h),
                                !.res = CanActivateResult(route, h)]
    /\ UNCHANGED <<clock, sessions, accessTokens, refreshTokens, blacklist,
                   loggedOut, logoutPc, mail, vcall>>
    /\ UNCHANGED lockVars

\* the Authorization headers a request may carry
Headers ==
    {NoHeader} \cup
    [type : {"Basic", "Bearer"}, tok : accessTokens \cup {ForgedToken, NoToken}]

\* two users, one of each role, have signed in at time 0; no logout is under
\* way, or the logout of one of the two sessions is between its two awaits
GuardInit ==
    /\ LockIdle
    /\ clock = 0
    /\ sessions = Sids
    /\ accessTokens = {[sid |-> 1, exp |-> AccessExpires, role |-> "user"],
                       [sid |-> 2, exp |-> AccessExpires, role |-> "admin"]}
    /\ refreshTokens = {[sid |-> i, exp |-> RefreshExpires, role |-> "refresh"] : i \in Sids}
    /\ \E lo \in accessTokens \cup {NoToken} :
         /\ logoutPc = lo
         /\ blacklist = [i \in Sids |-> IF i = lo.sid THEN lo.exp ELSE 0]
    /\ loggedOut = {}
    /\ mail = NoMail
    /\ vcall = [v \in Verifiers |-> IdleVerify]
    /\ reply = NoReply

GuardNext ==
    \/ \E route \in Routes, h \in Headers : CanActivate(route, h)
    \/ AuthTick

GuardSpec == GuardInit /\ [][GuardNext]_vars

(* ----------------------------- verifyEmail ----------------------------- *)
\* the verification token register() signed for the user
MailToken == [sid |-> 0, exp |-> mail.exp, role |-> "verify"]

\* register (lines 134-168): the user is created and the token cached with
\* ttl ms(auth.confirmEmailExpires); a second register of the e-mail throws
Register ==
    /\ ~mail.registered
    /\ mail' = [NoMail EXCEPT !.registered = TRUE,
                              !.exp = clock + ConfirmEmailExpires,
                              !.ttl = ConfirmEmailExpires]
    /\ reply' = [NoReply EXCEPT !.op = "register", !.res = "ok"]
    /\ UNCHANGED <<clock, sessions, accessTokens, refreshTokens, blacklist,
                   loggedOut, logoutPc, vcall>>
    /\ UNCHANGED lockVars

\* verifyEmail up to the answer of cacheManager.get (lines 172-187)
VerifyLookup(v, tok) ==
    LET valid == mail.registered /\ JwtValid(tok, {MailToken}, clock) IN
    /\ vcall[v].pc = "idle"
    /\ IF valid
       THEN /\ vcall' = [vcall EXCEPT ![v] = [pc |-> "del", hit |-> mail.ttl > 0,
                                              late |-> mail.completed]]
            /\ reply' = NoReply
       ELSE /\ reply' = [NoReply EXCEPT !.op = "verifyEmail", !.who = v,
                                        !.res = "Unauthorized",
                                        !.late = mail.completed]
            /\ UNCHANGED vcall
    /\ UNCHANGED <<clock, sessions, accessTokens, refreshTokens, blacklist,
                   loggedOut, logoutPc, mail>>
    /\ UNCHANGED lockVars

\* await this.cacheManager.del(key) (lines 189-191)
VerifyDel(v) ==
    /\ vcall[v].pc = "del"
    /\ mail' = [mail EXCEPT !.ttl = 0]
    /\ vcall' = [vcall EXCEPT ![v].pc = "check"]
    /\ reply' = NoReply
    /\ UNCHANGED <<clock, sessions, accessTokens, refreshTokens, blacklist,
                   loggedOut, logoutPc>>
    /\ UNCHANGED lockVars

\* the check of tokenCache and exp, verifyUser, return true (lines 193-201)
VerifyFinish(v) ==
    LET f == vcall[v]
        pass == f.hit /\ ~(mail.exp < clock)
    IN
    /\ f.pc = "check"
    /\ mail' = [mail EXCEPT !.verifications = mail.verifications + (IF pass THEN 1 ELSE 0),
                            !.completed = TRUE]
    /\ vcall' = [vcall EXCEPT ![v] = IdleVerify]
    /\ reply' = [NoReply EXCEPT !.op = "verifyEmail", !.who = v,
                                !.res = IF pass THEN "true" ELSE "Unauthorized",
                                !.late = f.late, !.hit = f.hit]
    /\ UNCHANGED <<clock, sessions, accessTokens, refreshTokens, blacklist,
                   loggedOut, logoutPc>>
    /\ UNCHANGED lockVars

MailInit == LockIdle /\ AuthIdle

MailNext ==
    \/ Register
    \/ \E v \in Verifiers, tok \in {MailToken, ForgedToken} : VerifyLookup(v, tok)
    \/ \E v \in Verifiers : VerifyDel(v)
    \/ \E v \in Verifiers : VerifyFinish(v)
    \/ AuthTick

MailSpec == MailInit /\ [][MailNext]_vars

(* ============================== claims ================================= *)
\* the step made c's withLock start its unit of work
Entered(c) == call[c].pc # "work" /\ call'[c].pc = "work"

\* the step returned a token from c's acquire()
DirectAcquired(c) == last'.op = "acquire" /\ last'.who = c /\ last'.ok

\* the step gave c a token
Obtained(c) == Entered(c) \/ DirectAcquired(c)

\* the step was a SET of c that the store answered with "not set"
Refused(c) ==
    \/ call'[c].pc = "acq_sleep"
       /\ (call[c].pc = "idle" \/ call'[c].attempt # call[c].attempt)
    \/ last'.who = c /\ last'.op = "acquire" /\ ~last'.ok /\ ~last'.err
    \/ last'.who = c /\ last'.op = "withLock" /\ ~last'.ran /\ ~last'.err

\* the key the step of c was about
KeyOf(c) == IF last'.op = "none" THEN call'[c].key ELSE last'.key

\* the token the step gave c
TokenOf(c) == IF last'.op = "none" THEN call'[c].token ELSE last'.token

\* the callers whose unit of work for key k is running
Working(k) == {c \in Callers : call[c].pc = "work" /\ call[c].key = k}

\* what a step that hands out or refuses a token does to the store
C1_Step ==
    UsesStore =>
      \A c \in Callers :
        /\ Obtained(c) =>
             /\ store[KeyOf(c)] = Absent
             /\ store'[KeyOf(c)] # Absent
             /\ store'[KeyOf(c)].token = TokenOf(c)
             /\ \A d \in Callers \ {c} : ~Obtained(d)
        /\ Refused(c) => store[KeyOf(c)] # Absent /\ store' = store

(* C1: in store mode an Acquire obtains a token exactly when its SET finds
   the key free: the step that obtains finds the key absent and leaves it
   holding the obtained token, no two callers obtain in one step, and a
   refused SET found the key held and changed nothing.  So of N concurrent
   Acquires on a free key the first served obtains, and every other one is
   refused until the key has been released or has expired. *)
C1_OneTokenPerKey == [][C1_Step]_vars

\* Q's acquire has used up its attempts and returned null while P's token is stored
C1_Witness ==
    /\ UsesStore
    /\ last.op = "acquire" /\ ~last.ok /\ ~last.err
    /\ \E c \in Callers \ {last.who} :
         mine[c] # NullTok /\ store[last.key] # Absent /\ store[last.key].token = mine[c]

(* C2 as claimed: in store mode no two units of work for one key run at the
   same time, whatever the interleaving (lease expiry included). *)
C2_NeverTwoWorking ==
    UsesStore => \A k \in Keys : Cardinality(Working(k)) <= 1

(* C2 amended: in store mode at most one of the units of work running for a
   key has a lease that has not run out; two units of work for one key
   overlap only once the ttl of the earlier acquisition has fully elapsed. *)
C2_OneLiveLease ==
    UsesStore =>
      \A k \in Keys : Cardinality({c \in Working(k) : call[c].lease > 0}) <= 1

\* two units of work for one key run at once: one lease has run out, one has not
C2_Witness ==
    /\ UsesStore
    /\ \E c, d \in Callers :
         /\ c # d /\ call[c].key = call[d].key
         /\ call[c].pc = "work" /\ call[c].lease = 0
         /\ call[d].pc = "work" /\ call[d].lease > 0

(* C3 (checked under SpecRetry0, where every call is withLock with
   retryCount: 0): a call whose first SET found the lock held is skipped, so
   a unit of work only ever starts on the first attempt; of two concurrent
   calls one increments the counter and the other is skipped. *)
C3_Retry0RunsOnce ==
    UsesStore => \A c \in Callers : call[c].pc = "work" => call[c].attempt = 0

\* what a step in which release() returns does to the store
C4_Step ==
    (UsesStore /\ last'.op = "release") =>
      LET k == last'.key
          t == last'.token
      IN /\ (store[k] # Absent /\ store[k].token # t) =>
               ~last'.ok /\ store' = store
         /\ (store[k] # Absent /\ store[k].token = t /\ ~last'.err) =>
               last'.ok /\ store'[k] = Absent
         /\ last'.ok =>
               store[k] # Absent /\ store[k].token = t /\ store'[k] = Absent

(* C4: Release is owner-gated.  A release whose token is not the one stored
   for the key returns false and leaves the store as it was; a release with
   the stored token, answered by the store, returns true and the key is
   gone; release returns true only if this very call removed the key. *)
C4_ReleaseOwnerGated == [][C4_Step]_vars

\* release(A, "wrong-token") has returned false and A is still held by its owner
C4_Witness ==
    /\ UsesStore
    /\ last.op = "release" /\ last.token = WrongToken /\ ~last.ok /\ ~last.err
    /\ store[last.key] # Absent
    /\ \E c \in Callers : store[last.key].token = mine[c]

\* a release that carries a token other than the one stored
C5_Step ==
    UsesStore =>
      \A c \in Callers :
        /\ (/\ call[c].pc = "work" /\ call'[c].pc = "idle"
            /\ store[call[c].key] # Absent
            /\ store[call[c].key].token # call[c].token) =>
               ~last'.ok /\ store' = store
        /\ (/\ last'.op = "release" /\ last'.who = c /\ last'.token = mine[c]
            /\ store[last'.key] # Absent
            /\ store[last'.key].token # mine[c]) =>
               ~last'.ok /\ store' = store

(* C5: once the key holds somebody else's token (P's lease ran out and Q
   acquired), P's release -- called directly with the token acquire gave it,
   or by the finally block of withLock -- returns false and leaves Q's
   token and ttl in the store untouched. *)
C5_StaleReleaseHarmless == [][C5_Step]_vars

\* P's withLock has ended, its release answered 0, and Q works under its own lock
C5_Witness ==
    /\ UsesStore
    /\ last.op = "withLock" /\ last.ran /\ ~last.ok /\ ~last.err
    /\ \E d \in Callers \ {last.who} :
         /\ call[d].pc = "work" /\ call[d].key = last.key
         /\ store[last.key] # Absent /\ store[last.key].token = call[d].token

\* an extend that carries a token other than the one stored
C6_Step ==
    (UsesStore /\ last'.op = "extend") =>
      ((store[last'.key] # Absent /\ store[last'.key].token # last'.token) =>
          ~last'.ok /\ store' = store)

(* C6: Extend is owner-gated: an extend whose token is not the one stored
   for the key returns false and leaves the key's token and ttl as they were. *)
C6_ExtendOwnerGated == [][C6_Step]_vars

\* extend(A, "other-token", ms) has returned false; A keeps a ttl other than ms
C6_Witness ==
    /\ UsesStore
    /\ last.op = "extend" /\ last.token = WrongToken /\ ~last.ok /\ ~last.err
    /\ store[last.key] # Absent /\ store[last.key].ttl # last.ms

\* the step is an extend by the holder of the key that the store answered
HolderExtends ==
    /\ UsesStore /\ last'.op = "extend" /\ ~last'.err
    /\ store[last'.key] # Absent /\ store[last'.key].token = last'.token

(* C7 as claimed: an extend by the current holder returns true and the key's
   remaining ttl increases, for every new ttl and every remaining lease.
   (On the discrete clock "increases" is read in the claim's favour as "the
   key is still there and its ttl is not smaller than before".) *)
C7_ExtendIncreasesTtl ==
    [][HolderExtends =>
          /\ last'.ok
          /\ store'[last'.key] # Absent
          /\ store'[last'.key].ttl >= store[last'.key].ttl]_vars

(* C7 amended: an extend by the current holder that the store answers
   returns true and sets the key's remaining ttl to the new ttl, token
   unchanged (a new ttl <= 0 removes the key); the ttl grows only if the new
   ttl exceeds what was left. *)
C7_ExtendSetsTtl ==
    [][HolderExtends =>
          /\ last'.ok
          /\ store'[last'.key] =
                IF last'.ms <= 0 THEN Absent
                ELSE [token |-> last'.token, ttl |-> last'.ms]]_vars

\* the holder's extend has returned true and the key has the ttl it asked for
C7_Witness ==
    /\ UsesStore
    /\ last.op = "extend" /\ last.ok /\ last.token = mine[last.who]
    /\ store[last.key] = [token |-> last.token, ttl |-> last.ms]

(* C8 (checked under LiveSpec: time passes): a key whose lease fits in the
   modelled time is eventually gone from the store unless it is extended,
   with no release needed; and a SET is refused only while the key is there
   with lease left, so an attempt made after the expiry obtains the lock. *)
C8_ExpirySelfHealing ==
    /\ \A k \in Keys :
         (store[k] # Absent /\ now + store[k].ttl <= MaxTime)
            ~> (store[k] = Absent \/ (last.op = "extend" /\ (last.ok \/ last.err)))
    /\ [][UsesStore =>
            \A c \in Callers :
               Refused(c) => store[KeyOf(c)] # Absent /\ store[KeyOf(c)].ttl >= 1]_vars

\* P's unit of work still runs, its lease ran out unreleased, and Q got the lock
C8_Witness ==
    /\ UsesStore
    /\ \E c, d \in Callers :
         /\ c # d
         /\ call[c].pc = "work" /\ call[c].lease = 0
         /\ call[d].pc = "work" /\ call[d].key = call[c].key
         /\ store[call[d].key] # Absent /\ store[call[d].key].token = call[d].token
         /\ call[d].token.time > call[c].token.time

\* when a unit of work starts and when the counter moves
C9_Step ==
    /\ \A c \in Callers :
         Entered(c) =>
           /\ call'[c].token # NullTok
           /\ counter' = counter + 1
           /\ UsesStore =>
                /\ store[call'[c].key] = Absent
                /\ store'[call'[c].key] # Absent
                /\ store'[call'[c].key].token = call'[c].token
    /\ counter' # counter => \E c \in Callers : Entered(c)
    /\ (last'.op = "withLock" /\ ~last'.ran) => counter' = counter

(* C9: the unit of work starts only in the step in which acquire hands the
   call a token (in store mode: the SET of this call found the key free and
   stored this call's token); the counter moves only when a unit of work
   starts, and a withLock that did not obtain the lock returns without
   having run it. *)
C9_NoWorkWithoutToken == [][C9_Step]_vars

\* a withLock came back without running fn while another caller's work holds the lock
C9_Witness ==
    /\ UsesStore
    /\ last.op = "withLock" /\ ~last.ran /\ ~last.err
    /\ counter = 1
    /\ \E d \in Callers \ {last.who} : call[d].pc = "work" /\ call[d].key = last.key

(* C10: what withLock returns when it was skipped differs from everything it
   can return after running fn: a call that ran fn and did not throw never
   returns the value (null) that a skipped call returns. *)
C10_SkippedDistinguished ==
    (last.op = "withLock" /\ last.ran /\ ~last.thrown) => last.val # "null"

\* the step ends c's unit of work
Exited(c) == call[c].pc = "work" /\ call'[c].pc # "work"

\* the store holds c's token for the key of c's call
HoldsOwn(c) ==
    store[call[c].key] # Absent /\ store[call[c].key].token = call[c].token

\* a withLock call from the start of its unit of work to its return
C11_Step ==
    /\ \A c \in Callers :
         /\ Entered(c) =>
              /\ call'[c].token # NullTok
              /\ UsesStore => store'[call'[c].key].token = call'[c].token
         /\ (/\ UsesStore /\ call[c].pc = "work" /\ call'[c].pc = "work"
             /\ HoldsOwn(c) /\ store'[call[c].key] = Absent) => now' = now + 1
         /\ Exited(c) =>
              /\ last'.op = "withLock" /\ last'.who = c /\ last'.ran
              /\ last'.fn \in FnResults \cup {"throw"}
              /\ last'.rel = 1
              /\ UsesStore =>
                   /\ last'.cmds = last'.sets + 1
                   /\ (HoldsOwn(c) /\ ~last'.err) =>
                         last'.ok /\ store'[call[c].key] = Absent
                   /\ ~HoldsOwn(c) => ~last'.ok /\ store' = store
                   /\ last'.err => ~last'.ok
    /\ (last'.op = "withLock" /\ ~last'.ran) =>
         /\ last'.rel = 0
         /\ last'.cmds = last'.sets

(* C11: in a withLock call the unit of work starts only in the step in which
   acquire hands over a token; while the work runs the call sends no release
   (its key leaves the store only by expiry); the step in which the work
   ends -- by return or by throw -- calls release exactly once, with the key
   and the token of this call, and it is the only store command after the
   SETs; a call whose acquire returned null calls no release. *)
C11_ReleaseOnceOnEveryExit == [][C11_Step]_vars

\* a unit of work has returned a value and the one release removed the key
C11_Witness ==
    /\ UsesStore
    /\ last.op = "withLock" /\ last.ran /\ last.fn = "value"
    /\ last.rel = 1 /\ last.ok /\ store[last.key] = Absent

(* C12: when the unit of work throws E, release has been called once (in
   store mode the delete-if-equal script went to the store) and withLock
   throws E itself: not another error, not a value, not null. *)
C12_ThrowReleasesAndRethrows ==
    (last.op = "withLock" /\ last.fn = "throw") =>
       /\ last.rel = 1
       /\ UsesStore => last.cmds = last.sets + 1
       /\ last.thrown /\ last.exc = "E" /\ last.val = "none"

\* fn threw, the release in finally removed the key, and E came out of withLock
C12_Witness ==
    /\ UsesStore
    /\ last.op = "withLock" /\ last.fn = "throw" /\ last.exc = "E"
    /\ last.ok /\ store[last.key] = Absent

(* C13: once the unit of work has run, what withLock hands back is what the
   unit of work handed back -- its value, or its error E -- whether the
   release in finally returned true, returned false on a mismatch, or failed
   on a store error; release never throws out of withLock. *)
C13_OutcomeIsFnOutcome ==
    (last.op = "withLock" /\ last.ran) =>
       /\ last.fn = "throw" => (last.thrown /\ last.exc = "E")
       /\ last.fn # "throw" =>
            (~last.thrown /\ last.exc = "none" /\ last.val = last.fn)

\* the release in finally failed on a store error, the key is still there,
\* and withLock returned fn's value
C13_Witness ==
    /\ UsesStore
    /\ last.op = "withLock" /\ last.ran /\ last.err /\ ~last.ok
    /\ last.fn = "value" /\ last.val = "value" /\ ~last.thrown
    /\ store[last.key] # Absent

\* a step in which acquire, release or extend returns
C14_Step ==
    /\ last'.op \in {"acquire", "release", "extend"} =>
         /\ ~last'.thrown /\ last'.exc = "none"
         /\ last'.err =>
              /\ ~last'.ok
              /\ last'.op = "acquire" => last'.token = NullTok
         /\ (/\ UsesStore /\ last'.op \in {"release", "extend"}
             /\ (store[last'.key] = Absent \/ store[last'.key].token # last'.token)) =>
               ~last'.ok
    /\ (last'.op = "withLock" /\ ~last'.ran) => ~last'.thrown /\ last'.val = "null"

(* C14: acquire, release and extend never throw on a store error or a token
   mismatch: a store error in acquire gives null (and inside withLock the
   skipped result, not an exception), a store error or a mismatch in release
   or extend gives false. *)
C14_NoThrowOnFault == [][C14_Step]_vars

\* the SET of an acquire on a free key failed on a store error: null, nothing thrown
C14_Witness ==
    /\ UsesStore
    /\ last.op = "acquire" /\ last.err /\ ~last.thrown /\ last.token = NullTok
    /\ store[last.key] = Absent

(* C15: a store error is a failed attempt only, so an acquire returns
   not-acquired only after all its 1 + retryCount attempts. *)
C15_StoreErrorRetried ==
    (UsesStore /\ last.op = "acquire" /\ ~last.ok) => last.sets = 1 + last.rc

(* C16 (checked under SpecAcquire0, where every call is acquire with
   retryCount: 0, so 1 + retryCount = 1): an acquire that the store answered
   makes exactly one SET, whether it obtains the lock or not. *)
C16_AttemptsAsRequested ==
    (UsesStore /\ last.op = "acquire" /\ ~last.err) => last.sets = 1

\* the step puts c to sleep
Sleeps(c) ==
    /\ call'[c].pc = "acq_sleep"
    /\ (call[c].pc # "acq_sleep" \/ call'[c].attempt # call[c].attempt)

\* when acquire sleeps, and how much it has slept when it returns
C17_Step ==
    /\ \A c \in Callers :
         /\ Sleeps(c) =>
              /\ call'[c].attempt < call'[c].retryCount
              /\ store' = store /\ store[call'[c].key] # Absent
              /\ call'[c].timer = call'[c].retryDelay
              /\ call'[c].sleeps = call'[c].attempt + 1
         /\ call'[c].sleeps <= call'[c].retryCount
         /\ call'[c].waited <= call'[c].retryCount * call'[c].retryDelay
         /\ Entered(c) => call'[c].sleeps = call'[c].sets - 1 \/ ~UsesStore
    /\ last'.op \in {"acquire", "withLock"} =>
         /\ last'.sleeps <= last'.rc
         /\ last'.waited <= last'.rc * last'.rd
         /\ UsesStore => last'.sleeps = last'.sets - 1
         /\ ~UsesStore => last'.sleeps = 0

(* C17 (checked under LiveAcquireSpec): a sleeping acquire whose delay fits
   in the modelled time leaves its sleep, and the attempt that follows the
   last sleep returns; acquire sleeps only after a refused SET with attempts
   left -- never after the last attempt, never after a success -- so it has
   slept at most retryCount times, retryCount * retryDelay in all, and one
   time less than it sent SETs. *)
C17_AcquireTerminates ==
    /\ \A c \in Callers :
         (call[c].pc = "acq_sleep" /\ now + call[c].timer <= MaxTime)
            ~> (call[c].pc # "acq_sleep")
    /\ [][C17_Step]_vars

\* an acquire has come back with null after both attempts and the one sleep between
C17_Witness ==
    /\ UsesStore
    /\ last.op = "acquire" /\ ~last.ok /\ ~last.err
    /\ last.rc = 1 /\ last.sets = 2 /\ last.sleeps = 1 /\ last.waited = last.rd

(* C18: with locking disabled no call sends a store command and the store
   stays as it was; every acquire returns a token at once (no caller ever
   sleeps), and every release and extend returns true. *)
C18_DisabledNoStore ==
    ~enabled =>
       /\ \A k \in Keys : store[k] = Absent
       /\ \A c \in Callers : call[c].pc # "acq_sleep"
       /\ last.op \in {"acquire", "release", "extend"} =>
            /\ last.cmds = 0 /\ ~last.err
            /\ last.ok /\ ~last.thrown
            /\ last.op = "acquire" =>
                 (last.token # NullTok /\ last.sets = 0 /\ last.sleeps = 0)

\* disabled: a release with a token nobody was given has returned true
\* after an acquire by the other caller
C18_Witness ==
    /\ ~enabled
    /\ last.op = "release" /\ last.ok /\ last.token = WrongToken
    /\ \E c \in Callers \ {last.who} : mine[c] # NullTok

(* C19: enabled without a store client (no endpoint configured, or the
   client could not be built): the service is constructed and every method
   does what it does when disabled -- nothing thrown, no store command,
   acquire returns a local token, release and extend return true, exists
   returns false. *)
C19_NoClientLikeDisabled ==
    (enabled /\ ~redis) =>
       /\ \A k \in Keys : store[k] = Absent
       /\ \A c \in Callers : call[c].pc # "acq_sleep"
       /\ last.op # "none" => (last.cmds = 0 /\ ~last.err)
       /\ last.op \in {"acquire", "release", "extend", "exists"} => ~last.thrown
       /\ last.op \in {"release", "extend"} => last.ok
       /\ last.op = "acquire" => (last.ok /\ last.token.kind = "local")
       /\ last.op = "exists" => ~last.ok

\* enabled without a client: an extend has returned true after a local acquire
C19_Witness ==
    /\ enabled /\ ~redis
    /\ last.op = "extend" /\ last.ok /\ ~last.thrown
    /\ mine[last.who] # NullTok /\ mine[last.who].kind = "local"

(* C20: tokens are never reused: the tokens acquire has given to two callers
   differ, in every mode. *)
C20_TokensDistinct ==
    \A c, d \in Callers :
       (c # d /\ mine[c] # NullTok /\ mine[d] # NullTok) => mine[c] # mine[d]

\* the step is a release of the token stored for k: release(), or the
\* finally block of withLock
ReleasesStored(k) ==
    \/ last'.op = "release" /\ last'.key = k /\ last'.token = store[k].token
    \/ \E c \in Callers :
          Exited(c) /\ call[c].key = k /\ call[c].token = store[k].token

\* the step is an extend with the token stored for k
ExtendsStored(k) ==
    last'.op = "extend" /\ last'.key = k /\ last'.token = store[k].token

\* what a step does to a key that is in the store
KeyLife(k, extendRemoves) ==
    (UsesStore /\ store[k] # Absent) =>
       /\ store'[k] # Absent =>
            /\ store'[k].token = store[k].token
            /\ store'[k].ttl # store[k].ttl => (ExtendsStored(k) \/ now' = now + 1)
       /\ store'[k] = Absent =>
            \/ ReleasesStored(k)
            \/ now' = now + 1
            \/ extendRemoves /\ ExtendsStored(k) /\ last'.ms <= 0

(* C21 as claimed: while a key stays in the store its token never changes
   (no acquire overwrites it, extend changes only its ttl), and the key
   leaves the store only by a release with its token or by expiry. *)
C21_GoneOnlyByReleaseOrExpiry == [][\A k \in Keys : KeyLife(k, FALSE)]_vars

(* C21 amended: while a key stays in the store its token never changes, and
   its ttl changes only by an extend with its token or by the passing of
   time; the key leaves the store only by a release with its token, by an
   extend with its token and a ttl <= 0, or by expiry. *)
C21_TokenFixedWhilePresent == [][\A k \in Keys : KeyLife(k, TRUE)]_vars

\* the holder's extend with ttl 0 has returned true and the key is gone
C21_Witness ==
    /\ UsesStore
    /\ last.op = "extend" /\ last.ms <= 0 /\ last.ok
    /\ last.token = mine[last.who] /\ store[last.key] = Absent

\* a step in which exists() settles in store mode
C22_Step ==
    (UsesStore /\ last'.op = "exists") =>
       /\ store' = store
       /\ last'.ok => store[last'.key] # Absent
       /\ ~last'.err => (last'.ok <=> store[last'.key] # Absent)
       /\ last'.err => (last'.thrown /\ ~last'.ok)

(* C22: in store mode exists(key) changes nothing in the store; answered by
   the store it returns true exactly when the key is there, whoever holds
   it; it never returns true for a key that is not there (on a store error
   it returns nothing: the error is thrown on). *)
C22_ExistsReadOnly == [][C22_Step]_vars

\* exists has returned true for a key that the other caller holds
C22_Witness ==
    /\ UsesStore
    /\ last.op = "exists" /\ last.ok
    /\ \E d \in Callers \ {last.who} :
         mine[d] # NullTok /\ store[last.key].token = mine[d]

\* a release or extend that finds the key gone
C25_Step ==
    UsesStore =>
      /\ (last'.op \in {"release", "extend"} /\ store[last'.key] = Absent) =>
            ~last'.ok /\ store' = store
      /\ \A c \in Callers :
            (Exited(c) /\ store[call[c].key] = Absent) =>
               ~last'.ok /\ store' = store

(* C25: in store mode a release (also the one in the finally block of
   withLock) or an extend that finds the key gone -- never acquired,
   released, or expired -- returns false and the key stays gone: extend
   never sets an expired lock again. *)
C25_AbsentStaysAbsent == [][C25_Step]_vars

\* the lease ran out, and the former holder's extend has returned false
C25_Witness ==
    /\ UsesStore
    /\ last.op = "extend" /\ last.ms > 0 /\ ~last.ok /\ ~last.err
    /\ last.token = mine[last.who] /\ store[last.key] = Absent

(* C27: the step in which acquire returns not-acquired leaves the store as
   it was. *)
C27_FailedAcquireNoWrite ==
    [][(UsesStore /\ last'.op = "acquire" /\ ~last'.ok) => store' = store]_vars

\* what the passing of one unit of time does to the keys in the store
C28_Step ==
    now' = now + 1 =>
      \A k \in Keys :
        store[k] # Absent =>
          store'[k] = IF store[k].ttl > 1
                      THEN [store[k] EXCEPT !.ttl = store[k].ttl - 1]
                      ELSE Absent

(* C28: every key in the store has a lease of at least one unit of time
   (SET always carries PX with the ttl option or, when the option is left
   out or 0, the default; extend sets a positive lease or removes the key),
   and every unit of time that passes takes one unit off it and removes the
   key with the last one. *)
C28_EveryKeyHasLease ==
    /\ [](\A k \in Keys : store[k] # Absent => store[k].ttl >= 1)
    /\ [][C28_Step]_vars

\* an acquire has returned its token and the key carries the default lease
C28_Witness ==
    /\ UsesStore
    /\ last.op = "acquire" /\ last.ok
    /\ store[last.key] = [token |-> last.token, ttl |-> defaultTtl]

\* a step in which a caller obtains the lock
C26_Step ==
    UsesStore =>
      \A c \in Callers :
        Obtained(c) =>
          /\ store[KeyOf(c)] = Absent
          /\ \A d \in Callers \ {c} : call'[d] = call[d] /\ mine'[d] = mine[d]

(* C26 (checked on a contended key, SpecContended): the lock goes to the
   caller whose SET finds the key free, whenever that caller began; the
   callers that began earlier and are waiting are not looked at and not
   changed by that step -- there is no queue of waiters.  The witness is the
   execution in which the caller that began first uses up its attempts and
   returns null while the caller that began second holds the lock. *)
C26_NoQueueOfWaiters == [][C26_Step]_vars

\* P began first (seq 0) and has returned null after all its attempts; Q
\* began second (its token carries draw 1) and its token is in the store
C26_Witness ==
    /\ seq = 2
    /\ last.op = "acquire" /\ last.who = "P" /\ ~last.ok /\ ~last.err
    /\ last.sets = last.rc + 1 /\ last.sleeps = last.rc /\ last.rc >= 1
    /\ mine["Q"] # NullTok /\ mine["Q"].rnd = 1
    /\ store[last.key].token = mine["Q"]

\* a release or extend with a token whose release has returned true
C29_Step ==
    UsesStore =>
      \A c \in Callers :
        (/\ released[c]
         /\ last'.who = c /\ last'.op \in {"release", "extend"}
         /\ last'.token = mine[c])
        => (~last'.ok /\ store' = store)

(* C29 (checked from a held key, SpecHeld): in store mode, once
   release(key, token) has returned true, every further release(key, token)
   and extend(key, token, ttl) with that token returns false and leaves the
   store as it is, a lock that another caller has acquired in the meantime
   included. *)
C29_ReleaseOnce == [][C29_Step]_vars

\* P's release returned true, Q acquired the key after it, and P's further
\* release or extend with the old token has returned false: Q's lock stands
C29_Witness ==
    /\ released["P"] /\ mine["P"] = HeldToken
    /\ last.who = "P" /\ last.op \in {"release", "extend"}
    /\ last.token = HeldToken /\ ~last.ok /\ ~last.err
    /\ mine["Q"] # NullTok /\ store[last.key].token = mine["Q"]

(* C23: once logout has completed for a session, verifyAccessToken rejects
   every unexpired access token issued for that session, and refreshToken
   rejects every refresh token of that session. *)
C23_LogoutInvalidatesSession ==
    [][/\ (/\ reply'.op = "verifyAccessToken"
           /\ reply'.tok \in accessTokens /\ clock < reply'.tok.exp
           /\ reply'.tok.sid \in loggedOut)
          => reply'.res = "Unauthorized"
       /\ (reply'.op = "refreshToken" /\ reply'.tok.sid \in loggedOut)
          => reply'.res = "Unauthorized"]_vars

\* the route declares no required roles
NoRolesRequired(route) == ~route.declared \/ route.roles = {}

(* C24: canActivate admits every request to a public route; on any other
   route a request with no Bearer token is rejected with Unauthorized unless
   the route is auth-optional, and so is a request whose token
   verifyAccessToken rejects; a request with a valid token is admitted when
   the route declares no required roles or the token's role is one of
   them, and is denied otherwise. *)
C24_GuardDecision ==
    reply.op = "canActivate" =>
      LET route == reply.route
          valid == reply.tok # NoToken /\ VerifyAccessToken(reply.tok) = "ok"
      IN
      /\ route.pub => reply.res = "true"
      /\ (~route.pub /\ reply.tok = NoToken /\ ~route.opt) => reply.res = "Unauthorized"
      /\ (~route.pub /\ reply.tok # NoToken /\ ~valid) => reply.res = "Unauthorized"
      /\ (~route.pub /\ valid) =>
            reply.res = IF NoRolesRequired(route) \/ reply.tok.role \in route.roles
                        THEN "true" ELSE "false"

(* C30: every verifyEmail call that reaches the cache lookup deletes the
   cached token, the user is marked verified at most once per issued token
   (also when two calls run concurrently), and a call that starts after
   another one has completed throws Unauthorized. *)
C30_VerifyOnce ==
    [][/\ \A v \in Verifiers :
            (vcall[v].pc = "del" /\ vcall'[v].pc # "del") => mail'.ttl = 0
       /\ mail'.verifications <= 1
       /\ (reply'.op = "verifyEmail" /\ reply'.late) => reply'.res = "Unauthorized"]_vars

====
